---- MODULE Spec2Model ----
(***************************************************************************)
(* Model of the sentiment-extension popup scripts.                        *)
(*   popup.js  : two DOMContentLoaded listeners in one file; the first    *)
(*               (lines 1-200, "L1") has the bookmark store, the second   *)
(*               (lines 201-318, "L2") is an older analyze-only copy.     *)
(*   part_000  : a third analyze-only copy ("P0").                        *)
(* Numbers that the scripts show with one decimal are kept in tenths;     *)
(* texts that the scripts build from templates are sequences of pieces.   *)
(***************************************************************************)
EXTENDS Integers, Sequences, FiniteSets, TLC

VARIABLES script, tabHasUrl, view,
          analyzeDisabled, loaderHidden, errorHidden, resultsHidden,
          errorText, dom, currentProductData,
          tabQ, requests, clicks,
          stored, storageQ, bookmarkRows, lastAlert, actions

vars == <<script, tabHasUrl, view,
          analyzeDisabled, loaderHidden, errorHidden, resultsHidden,
          errorText, dom, currentProductData,
          tabQ, requests, clicks,
          stored, storageQ, bookmarkRows, lastAlert, actions>>

-----------------------------------------------------------------------------
(* Bounds of the exploration *)
\* clicks and tab changes of the user during one popup session
MaxUserActions == 3
\* fetches started during one popup session
MaxRequests == 2

-----------------------------------------------------------------------------
(* JavaScript values *)

\* null / undefined object reference
NullData == [isNull |-> TRUE]
IsNull(d) == "isNull" \in DOMAIN d
Has(d, f) == f \in DOMAIN d

\* the object {}
EmptyObject == [f \in {} |-> 0]

\* a text as the sequence of its characters
Chars(n, c) == [i \in 1..n |-> c]
Rating45 == <<"4", ".", "5", " ", "o", "u", "t", " ", "o", "f", " ", "5">>
Rating3 == <<"3">>
RatingNA == <<"N", "/", "A">>
LongExample == Chars(52, "x")
ShortExample == Chars(50, "y")

\* the result of parseFloat: NaN, or a number in tenths
NaN == [nan |-> TRUE, v |-> 0]
Num(t) == [nan |-> FALSE, v |-> t]

DigitVal == ("0" :> 0) @@ ("1" :> 1) @@ ("2" :> 2) @@ ("3" :> 3) @@ ("4" :> 4) @@
            ("5" :> 5) @@ ("6" :> 6) @@ ("7" :> 7) @@ ("8" :> 8) @@ ("9" :> 9)
IsDigit(c) == c \in DOMAIN DigitVal

\* s.split(' ')[0]
SplitFirst(s) ==
    LET sp == {i \in 1..Len(s) : s[i] = " "}
    IN IF sp = {} THEN s
       ELSE SubSeq(s, 1, (CHOOSE i \in sp : \A j \in sp : i <= j) - 1)

\* number of leading decimal digits of s from position p
RECURSIVE DigitRun(_, _)
DigitRun(s, p) ==
    IF p <= Len(s) /\ IsDigit(s[p]) THEN 1 + DigitRun(s, p + 1) ELSE 0

RECURSIVE DigitsValue(_, _, _)
DigitsValue(s, p, n) ==
    IF n = 0 THEN 0 ELSE DigitsValue(s, p, n - 1) * 10 + DigitVal[s[p + n - 1]]

\* parseFloat(s): the longest numeric prefix, NaN when there is none.
\* Texts of the model carry at most one fractional digit.
ParseFloat(s) ==
    LET n == DigitRun(s, 1)
        hasFrac == n + 1 <= Len(s) /\ s[n + 1] = "." /\ DigitRun(s, n + 2) > 0
        frac == IF hasFrac THEN DigitVal[s[n + 2]] ELSE 0
    IN IF n = 0 /\ ~hasFrac THEN NaN
       ELSE Num(DigitsValue(s, 1, n) * 10 + frac)

\* String(x) for a number x given in tenths: 86 -> "8.6", 90 -> "9"
NumberToString(t) ==
    IF t % 10 = 0 THEN ToString(t \div 10)
    ELSE ToString(t \div 10) \o "." \o ToString(t % 10)

\* x.toFixed(1) for x >= 0 given in hundredths (or NaN)
ToFixed1(x) ==
    IF x.nan THEN "NaN"
    ELSE LET t == (x.v + 5) \div 10
         IN ToString(t \div 10) \o "." \o ToString(t % 10)

-----------------------------------------------------------------------------
(* Responses of the backend: records that carry only the fields present *)

Item(k, ex) == [keyword |-> k, examples |-> ex]
FivePros == <<Item("battery", <<LongExample, ShortExample>>),
              Item("screen", <<ShortExample>>),
              Item("price", <<>>),
              [keyword |-> "camera"],
              Item("sound", <<ShortExample>>)>>

RespFull == [product_name |-> "A", product_url |-> "http://shop/a",
             rating |-> Rating45, overall_score |-> 72,
             public_opinion |-> [positive_percent |-> 80],
             review_summary_generator |-> "Good phone",
             pros_cons_panel |-> [pros |-> FivePros,
                                  cons |-> <<Item("heat", <<ShortExample>>)>>]]
RespNoScore == [product_name |-> "B", rating |-> Rating45,
                public_opinion |-> [positive_percent |-> 80],
                pros_cons_panel |-> [pros |-> <<>>,
                                     cons |-> <<Item("heat", <<LongExample>>)>>]]
RespZeroScore == [product_name |-> "A", rating |-> Rating3, overall_score |-> 0,
                  public_opinion |-> [positive_percent |-> 50],
                  pros_cons_panel |-> [pros |-> <<Item("price", <<>>)>>]]
RespBare == [public_opinion |-> EmptyObject, pros_cons_panel |-> EmptyObject]
RespNoPanel == [product_name |-> "C", public_opinion |-> [positive_percent |-> 10]]
RespBadRating == [product_name |-> "B", rating |-> RatingNA,
                  public_opinion |-> [positive_percent |-> 80],
                  pros_cons_panel |-> [pros |-> <<>>, cons |-> <<>>]]
RespNoOpinion == [product_name |-> "C", rating |-> Rating45, overall_score |-> 72,
                  pros_cons_panel |-> [pros |-> FivePros, cons |-> <<>>]]

Responses == {RespFull, RespNoScore, RespZeroScore, RespBare, RespNoPanel,
              RespBadRating, RespNoOpinion}

\* !data || !data.public_opinion
InvalidData(d) == IsNull(d) \/ ~Has(d, "public_opinion")

-----------------------------------------------------------------------------
(* Result renderer *)

InvalidDataMsg == <<"Received invalid data from the server.">>
NoUrlMsg == <<"Could not get the URL of the current tab.">>
NameDefault == "Product Name Not Found"
SummaryDefault == "No summary available."
PanelTypeError == "Cannot read properties of undefined (reading 'pros')"
NullTypeError == "Cannot read properties of null (reading 'detail')"
JsonSyntaxError == "Unexpected token '<'"
FetchTypeError == "Failed to fetch"

\* data.product_name || 'Product Name Not Found'
NameOf(d) ==
    IF Has(d, "product_name") /\ d.product_name # "" THEN d.product_name
    ELSE NameDefault

\* data.review_summary_generator || 'No summary available.'
SummaryOf(d) ==
    IF Has(d, "review_summary_generator") /\ d.review_summary_generator # ""
    THEN d.review_summary_generator ELSE SummaryDefault

\* data.public_opinion.positive_percent || 0
PercentOf(d) ==
    IF Has(d.public_opinion, "positive_percent")
    THEN d.public_opinion.positive_percent ELSE 0

\* data.rating || "0"
RatingTextOf(d) ==
    IF Has(d, "rating") /\ d.rating # <<>> THEN d.rating ELSE <<"0">>

\* ((rating / 5 * 10) * 0.6) + ((positive_percent / 10) * 0.4), in hundredths:
\* with the rating r in tenths this is 12 * r + 4 * positive_percent.
RawScore(d) ==
    LET rating == ParseFloat(SplitFirst(RatingTextOf(d)))
    IN IF rating.nan THEN NaN ELSE Num(12 * rating.v + 4 * PercentOf(d))

calculateScore(d) == ToFixed1(RawScore(d))

\* data.overall_score is truthy
TruthyScore(d) == Has(d, "overall_score") /\ d.overall_score # 0

\* data.overall_score || calculateScore(data), as `${score}`
ScoreOrCalculated(d) ==
    IF TruthyScore(d) THEN NumberToString(d.overall_score) ELSE calculateScore(d)

\* the text put in scoreEl by each listener
ScoreText(l, d) ==
    IF l = "L2" THEN <<calculateScore(d), " / 10">>
    ELSE <<ScoreOrCalculated(d), " / 10">>

SentimentText(l, d) ==
    IF l = "L2" THEN <<ToString(PercentOf(d)), "% Positive Sentiment">>
    ELSE <<ToString(PercentOf(d)), "% Positive">>

\* items.slice(0, 4)
Slice4(items) == SubSeq(items, 1, IF Len(items) < 4 THEN Len(items) ELSE 4)

\* an example cut one character early: the text of exactly 50 characters too
ExampleQuoteFrom50(ex) ==
    IF Len(ex) >= 50 THEN SubSeq(ex, 1, 50) \o <<".", ".", ".">> ELSE ex

\* the quote of an example text: cut to 50 characters plus '...' when longer
ExampleQuote(ex) ==
    IF Len(ex) > 50 THEN SubSeq(ex, 1, 50) \o <<".", ".", ".">> ELSE ex

\* `"${example}"`: the text of the blockquote, between quotation marks
InQuotes(t) == <<"\"">> \o t \o <<"\"">>

KeywordOf(item) == IF Has(item, "keyword") THEN item.keyword ELSE "undefined"

\* one <li> of populateVerdictList
VerdictItem(item) ==
    IF Has(item, "examples") /\ Len(item.examples) > 0
    THEN [keyword |-> KeywordOf(item),
          quote |-> InQuotes(ExampleQuote(item.examples[1]))]
    ELSE [keyword |-> KeywordOf(item)]

EmptyListItem == [cls |-> "empty-list", text |-> "N/A"]

\* a populateVerdictList that leaves an empty list without its placeholder
populateVerdictListBare(panel, f) ==
    IF ~Has(panel, f) \/ Len(panel[f]) = 0 THEN <<>>
    ELSE LET items == Slice4(panel[f])
         IN [i \in 1..Len(items) |-> VerdictItem(items[i])]

\* the <li> elements populateVerdictList leaves in the list element
populateVerdictList(panel, f) ==
    IF ~Has(panel, f) \/ Len(panel[f]) = 0 THEN <<EmptyListItem>>
    ELSE LET items == Slice4(panel[f])
         IN [i \in 1..Len(items) |-> VerdictItem(items[i])]

\* the <li> elements of the older listener: every entry, as `${pro}`
RawVerdictList(panel, f) ==
    IF ~Has(panel, f) \/ Len(panel[f]) = 0 THEN <<[text |-> "N/A"]>>
    ELSE [i \in 1..Len(panel[f]) |-> [text |-> "[object Object]"]]

VerdictList(l, panel, f) ==
    IF l = "L2" THEN RawVerdictList(panel, f) ELSE populateVerdictList(panel, f)

\* currentProductData = data; currentProductData.url = data.product_url || ''
WithUrl(d) ==
    ("url" :> (IF Has(d, "product_url") THEN d.product_url ELSE "")) @@ d

BlankDom == [productName |-> "", scoreText |-> <<>>, barWidth |-> <<>>,
             sentimentText |-> <<>>, summary |-> "",
             prosList |-> <<>>, consList |-> <<>>]

\* displayResults(data) past the validation, for listener l, from the
\* rendered fields d0 and the current-result slot c0.
\*   threw : data.pros_cons_panel is undefined, TypeError at the first
\*           populateVerdictList argument, after the fields above were set
RenderValid(l, data, d0, c0) ==
    LET c1 == IF l = "L1" THEN WithUrl(data) ELSE c0
        d1 == [d0 EXCEPT !.productName = NameOf(data),
                         !.scoreText = ScoreText(l, data),
                         !.barWidth = <<ToString(PercentOf(data)), "%">>,
                         !.sentimentText = SentimentText(l, data),
                         !.summary = SummaryOf(data)]
    IN IF ~Has(data, "pros_cons_panel")
       THEN [invalid |-> FALSE, threw |-> TRUE, shown |-> FALSE,
             dom |-> d1, cur |-> c1]
       ELSE [invalid |-> FALSE, threw |-> FALSE, shown |-> TRUE,
             dom |-> [d1 EXCEPT
                        !.prosList = VerdictList(l, data.pros_cons_panel, "pros"),
                        !.consList = VerdictList(l, data.pros_cons_panel, "cons")],
             cur |-> c1]

\* a displayResults that saves the result for bookmarking before validating it
displayResultsSavingFirst(l, data, d0, c0) ==
    IF InvalidData(data)
    THEN [invalid |-> TRUE, threw |-> FALSE, shown |-> FALSE, dom |-> d0,
          cur |-> IF l = "L1" THEN data ELSE c0]
    ELSE RenderValid(l, data, d0, c0)

\* displayResults(data): what it leaves behind and how it ended.
\*   invalid : took the early return after displayError
displayResults(l, data, d0, c0) ==
    IF InvalidData(data)
    THEN [invalid |-> TRUE, threw |-> FALSE, shown |-> FALSE, dom |-> d0, cur |-> c0]
    ELSE RenderValid(l, data, d0, c0)

-----------------------------------------------------------------------------
(* Backend client *)

Statuses == {404, 500}
DetailBody == [detail |-> "Could not scrape this page"]
NoDetailBody == [error |-> "internal"]
ErrorBodies == {DetailBody, NoDetailBody, NullData}

\* how a fetch ends: net = a response arrived, ok = response.ok,
\* parsed = response.json() resolved, body = the parsed JSON
NetworkFailure == [net |-> FALSE, ok |-> FALSE, status |-> 0, parsed |-> FALSE,
                   body |-> NullData]
OkJson(d) == [net |-> TRUE, ok |-> TRUE, status |-> 200, parsed |-> TRUE, body |-> d]
OkGarbage == [net |-> TRUE, ok |-> TRUE, status |-> 200, parsed |-> FALSE,
              body |-> NullData]
ErrJson(st, b) == [net |-> TRUE, ok |-> FALSE, status |-> st, parsed |-> TRUE,
                   body |-> b]
ErrGarbage(st) == [net |-> TRUE, ok |-> FALSE, status |-> st, parsed |-> FALSE,
                   body |-> NullData]

Outcomes == {NetworkFailure, OkGarbage}
            \cup {OkJson(d) : d \in Responses \cup {NullData}}
            \cup {ErrJson(st, b) : st \in Statuses, b \in ErrorBodies}
            \cup {ErrGarbage(st) : st \in Statuses}

ConnectionFailed(msg) ==
    <<"Connection failed: ">> \o msg \o <<". Is the local server running?">>

\* a thrown Error object / a rejection with the parsed body itself
ErrorObject(msg) == [isError |-> TRUE, message |-> msg]
NotShown == <<>>

\* `Server error: ${response.status}` and its older wording
StatusMessage(l, st) ==
    IF l = "L2" THEN <<"Server responded with status: ", ToString(st)>>
    ELSE <<"Server error: ", ToString(st)>>

\* the value the promise chain rejects with on a non-success status
RejectionOf(l, o) ==
    IF ~o.parsed THEN ErrorObject(<<JsonSyntaxError>>)
    ELSE IF l = "L1" THEN o.body
    ELSE IF IsNull(o.body) THEN ErrorObject(<<NullTypeError>>)
    ELSE IF Has(o.body, "detail") /\ o.body.detail # ""
         THEN ErrorObject(<<o.body.detail>>)
    ELSE ErrorObject(StatusMessage(l, o.status))

\* the message the .catch handler passes to displayError; NotShown when the
\* handler itself throws (error is null) before it calls displayError
CatchMessage(l, e) ==
    IF l = "L1"
    THEN IF IsNull(e) THEN NotShown
         ELSE IF Has(e, "detail") /\ e.detail # "" THEN <<e.detail>>
         ELSE IF Has(e, "message") THEN ConnectionFailed(e.message)
         ELSE ConnectionFailed(<<"undefined">>)
    ELSE ConnectionFailed(e.message)

\* the .then/.then/.catch part of callBackend for outcome o: the rendered
\* fields, the current result, whether the results panel was shown and the
\* message given to displayError (NotShown when it was not called)
ChainResult(l, o, d0, c0) ==
    LET keep(msg) == [dom |-> d0, cur |-> c0, shown |-> FALSE, err |-> msg]
    IN IF ~o.net THEN keep(CatchMessage(l, ErrorObject(<<FetchTypeError>>)))
       ELSE IF ~o.ok THEN keep(CatchMessage(l, RejectionOf(l, o)))
       ELSE IF ~o.parsed THEN keep(CatchMessage(l, ErrorObject(<<JsonSyntaxError>>)))
       ELSE LET r == displayResults(l, o.body, d0, c0)
            IN [dom |-> r.dom, cur |-> r.cur, shown |-> r.shown,
                err |-> IF r.invalid THEN InvalidDataMsg
                        ELSE IF r.threw
                             THEN CatchMessage(l, ErrorObject(<<PanelTypeError>>))
                        ELSE NotShown]

\* a cleanup that hides the loader and leaves the button as it is
FinallyLoaderOnly ==
    /\ loaderHidden' = TRUE
    /\ analyzeDisabled' = analyzeDisabled

\* the .finally handler: loader.classList.add('hidden'); analyzeBtn.disabled = false
Finally ==
    /\ loaderHidden' = TRUE
    /\ analyzeDisabled' = FALSE

-----------------------------------------------------------------------------
(* Bookmark store *)

AlreadyBookmarked == "This product is already bookmarked!"
ProductBookmarked == "Product bookmarked!"
NoBookmarks == [placeholder |-> "You have no saved products."]
ConfirmRemove == "Are you sure you want to remove this bookmark?"

\* b.product_name === currentProductData.product_name
SameName(a, b) ==
    /\ Has(a, "product_name") = Has(b, "product_name")
    /\ Has(a, "product_name") => a.product_name = b.product_name

\* a duplicate test on the whole entry instead of its product_name
IsDuplicateByValue(bookmarks, cur) == \E i \in 1..Len(bookmarks) : bookmarks[i] = cur

\* bookmarks.some(b => b.product_name === currentProductData.product_name)
IsDuplicate(bookmarks, cur) == \E i \in 1..Len(bookmarks) : SameName(bookmarks[i], cur)

\* a filter that takes indexToDelete for a one-based position
RECURSIVE FilterOutOneBased(_, _, _)
FilterOutOneBased(bookmarks, indexToDelete, k) ==
    IF k > Len(bookmarks) THEN <<>>
    ELSE (IF k # indexToDelete THEN <<bookmarks[k]>> ELSE <<>>)
         \o FilterOutOneBased(bookmarks, indexToDelete, k + 1)

\* bookmarks.filter((_, index) => index !== indexToDelete), index zero-based
RECURSIVE FilterOut(_, _, _)
FilterOut(bookmarks, indexToDelete, k) ==
    IF k > Len(bookmarks) THEN <<>>
    ELSE (IF k - 1 # indexToDelete THEN <<bookmarks[k]>> ELSE <<>>)
         \o FilterOut(bookmarks, indexToDelete, k + 1)

\* one .bookmark-item of loadAndRenderBookmarks
BookmarkRow(d, index) ==
    [title |-> IF Has(d, "product_name") THEN d.product_name ELSE "undefined",
     score |-> <<"Score: ", ScoreOrCalculated(d), " / 10">>,
     index |-> index]

RenderBookmarks(bookmarks) ==
    IF Len(bookmarks) = 0 THEN <<NoBookmarks>>
    ELSE [i \in 1..Len(bookmarks) |-> BookmarkRow(bookmarks[i], i - 1)]

GetRequest(purpose) == [kind |-> "get", purpose |-> purpose]
\* the getBookmarks call of a delete: its callback closes over indexToDelete
\* and over the clicked button, kept here as the row it belongs to
DeleteGet(row) ==
    [kind |-> "get", purpose |-> "delete", index |-> row.index, row |-> row]
SetRequest(purpose, value) == [kind |-> "set", purpose |-> purpose, value |-> value]

-----------------------------------------------------------------------------
(* State machine *)

Scripts == {"popup.js", "part_000"}
Listeners(sc) == IF sc = "popup.js" THEN <<"L1", "L2">> ELSE <<"P0">>

\* lists an earlier popup session can have left in chrome.storage.local
InitialStores == {<<>>, <<WithUrl(RespFull), WithUrl(RespNoScore)>>}

Init ==
    /\ script \in Scripts
    /\ tabHasUrl \in BOOLEAN
    /\ view = "main"
    /\ analyzeDisabled = FALSE
    /\ loaderHidden = TRUE
    /\ errorHidden = TRUE
    /\ resultsHidden = TRUE
    /\ errorText = <<>>
    /\ dom = BlankDom
    /\ currentProductData = NullData
    /\ tabQ = <<>>
    /\ requests = <<>>
    /\ clicks = 0
    /\ stored \in InitialStores
    /\ storageQ = <<>>
    /\ bookmarkRows = <<>>
    /\ lastAlert = ""
    /\ actions = 0

analysisVars == <<analyzeDisabled, loaderHidden, errorHidden, resultsHidden,
                  errorText, dom, currentProductData, tabQ, requests, clicks>>
storeVars == <<stored, storageQ, bookmarkRows, lastAlert>>

\* one more user event within the bound
UserAction ==
    /\ actions < MaxUserActions
    /\ actions' = actions + 1

\* analyzeBtn click: every registered listener calls chrome.tabs.query
AnalyzeClick ==
    /\ view = "main"
    /\ ~analyzeDisabled
    /\ Len(tabQ) + Len(requests) + Len(Listeners(script)) <= MaxRequests
    /\ UserAction
    /\ clicks' = clicks + 1
    /\ tabQ' = tabQ \o Listeners(script)
    /\ UNCHANGED <<script, tabHasUrl, view, analyzeDisabled, loaderHidden,
                   errorHidden, resultsHidden, errorText, dom,
                   currentProductData, requests>>
    /\ UNCHANGED storeVars

\* the active tab of the window changes to or from a page without a URL
TabChange ==
    /\ UserAction
    /\ tabHasUrl' = ~tabHasUrl
    /\ UNCHANGED <<script, view>>
    /\ UNCHANGED analysisVars
    /\ UNCHANGED storeVars

\* a tabs callback whose no-URL branch lacks the return: the error is set and
\* the handler goes on to show the loader and call the backend
TabsCallbackFallingThrough ==
    /\ tabQ # <<>>
    /\ tabQ' = Tail(tabQ)
    /\ errorText' = IF ~tabHasUrl THEN NoUrlMsg ELSE errorText
    /\ loaderHidden' = FALSE
    /\ resultsHidden' = TRUE
    /\ errorHidden' = TRUE
    /\ analyzeDisabled' = TRUE
    /\ requests' = Append(requests, [listener |-> Head(tabQ), pending |-> TRUE])
    /\ UNCHANGED <<script, tabHasUrl, view, dom, currentProductData, clicks, actions>>
    /\ UNCHANGED storeVars

\* the chrome.tabs.query callback of one listener, callBackend's fetch included
TabsCallback ==
    /\ tabQ # <<>>
    /\ tabQ' = Tail(tabQ)
    /\ IF ~tabHasUrl
       THEN /\ errorText' = NoUrlMsg
            /\ errorHidden' = FALSE
            /\ UNCHANGED <<loaderHidden, resultsHidden, analyzeDisabled, requests>>
       ELSE /\ loaderHidden' = FALSE
            /\ resultsHidden' = TRUE
            /\ errorHidden' = TRUE
            /\ analyzeDisabled' = TRUE
            /\ requests' = Append(requests, [listener |-> Head(tabQ), pending |-> TRUE])
            /\ UNCHANGED errorText
    /\ UNCHANGED <<script, tabHasUrl, view, dom, currentProductData, clicks, actions>>
    /\ UNCHANGED storeVars

\* the promise chain of request i settling with outcome o
SettleWith(i, o) ==
    /\ i \in 1..Len(requests)
    /\ requests[i].pending
    /\ LET r == ChainResult(requests[i].listener, o, dom, currentProductData)
       IN /\ dom' = r.dom
          /\ currentProductData' = r.cur
          /\ resultsHidden' = IF r.shown THEN FALSE ELSE resultsHidden
          /\ errorText' = IF r.err # NotShown THEN r.err ELSE errorText
          /\ errorHidden' = IF r.err # NotShown THEN FALSE ELSE errorHidden
    /\ Finally
    /\ requests' = [requests EXCEPT ![i].pending = FALSE]
    /\ UNCHANGED <<script, tabHasUrl, view, tabQ, clicks, actions>>
    /\ UNCHANGED storeVars

Settle == \E i \in 1..Len(requests) : \E o \in Outcomes : SettleWith(i, o)

\* viewBookmarksBtn click: switch the view, loadAndRenderBookmarks()
ViewBookmarksClick ==
    /\ script = "popup.js"
    /\ view = "main"
    /\ UserAction
    /\ view' = "bookmarks"
    /\ storageQ' = Append(storageQ, GetRequest("render"))
    /\ UNCHANGED <<script, tabHasUrl, stored, bookmarkRows, lastAlert>>
    /\ UNCHANGED analysisVars

\* backToMainBtn click
BackToMainClick ==
    /\ script = "popup.js"
    /\ view = "bookmarks"
    /\ UserAction
    /\ view' = "main"
    /\ UNCHANGED <<script, tabHasUrl>>
    /\ UNCHANGED analysisVars
    /\ UNCHANGED storeVars

\* bookmarkBtn click with a current result: getBookmarks(...)
BookmarkClick ==
    /\ script = "popup.js"
    /\ view = "main"
    /\ ~IsNull(currentProductData)
    /\ UserAction
    /\ storageQ' = Append(storageQ, GetRequest("add"))
    /\ UNCHANGED <<script, tabHasUrl, view, stored, bookmarkRows, lastAlert>>
    /\ UNCHANGED analysisVars

\* a delete handler that does not look at the answer to the prompt
DeleteClickIgnoringAnswer(row, confirmed) ==
    /\ script = "popup.js"
    /\ view = "bookmarks"
    /\ row \in 1..Len(bookmarkRows)
    /\ Has(bookmarkRows[row], "index")
    /\ UserAction
    /\ lastAlert' = ConfirmRemove
    /\ storageQ' = Append(storageQ, DeleteGet(bookmarkRows[row]))
    /\ UNCHANGED <<script, tabHasUrl, view, stored, bookmarkRows>>
    /\ UNCHANGED analysisVars

\* click on the delete button of a rendered row: the confirm prompt is shown
\* and answered by the user
DeleteClick(row, confirmed) ==
    /\ script = "popup.js"
    /\ view = "bookmarks"
    /\ row \in 1..Len(bookmarkRows)
    /\ Has(bookmarkRows[row], "index")
    /\ UserAction
    /\ lastAlert' = ConfirmRemove
    /\ storageQ' = IF confirmed
                   THEN Append(storageQ, DeleteGet(bookmarkRows[row]))
                   ELSE storageQ
    /\ UNCHANGED <<script, tabHasUrl, view, stored, bookmarkRows>>
    /\ UNCHANGED analysisVars

\* chrome.storage.local serves the oldest request and runs its callback
StorageCallback ==
    /\ storageQ # <<>>
    /\ LET req == Head(storageQ)
           rest == Tail(storageQ)
       IN IF req.kind = "get"
          THEN /\ stored' = stored
               /\ IF req.purpose = "render"
                  THEN /\ bookmarkRows' = RenderBookmarks(stored)
                       /\ storageQ' = rest
                       /\ UNCHANGED lastAlert
                  ELSE IF req.purpose = "add"
                  THEN /\ IF IsDuplicate(stored, currentProductData)
                          THEN /\ lastAlert' = AlreadyBookmarked
                               /\ storageQ' = rest
                          ELSE /\ storageQ' = Append(rest,
                                      SetRequest("add", Append(stored, currentProductData)))
                               /\ UNCHANGED lastAlert
                       /\ UNCHANGED bookmarkRows
                  ELSE /\ storageQ' = Append(rest,
                              SetRequest("delete", FilterOut(stored, req.index, 1)))
                       /\ UNCHANGED <<bookmarkRows, lastAlert>>
          ELSE /\ stored' = req.value
               /\ IF req.purpose = "add"
                  THEN /\ lastAlert' = ProductBookmarked
                       /\ storageQ' = rest
                  ELSE /\ storageQ' = Append(rest, GetRequest("render"))
                       /\ UNCHANGED lastAlert
               /\ UNCHANGED bookmarkRows
    /\ UNCHANGED <<script, tabHasUrl, view, actions>>
    /\ UNCHANGED analysisVars

Next ==
    \/ AnalyzeClick
    \/ TabChange
    \/ TabsCallback
    \/ Settle
    \/ ViewBookmarksClick
    \/ BackToMainClick
    \/ BookmarkClick
    \/ \E row \in 1..Len(bookmarkRows) : \E confirmed \in BOOLEAN : DeleteClick(row, confirmed)
    \/ StorageCallback

Spec == Init /\ [][Next]_vars

\* one turn of the event loop: a scheduled callback runs or a fetch settles
PendingCallback == TabsCallback \/ Settle \/ StorageCallback

\* the event loop keeps running callbacks while there are any, and every
\* fetch settles
FairSpec == Spec /\ WF_vars(PendingCallback)

-----------------------------------------------------------------------------
(* Properties *)

Range(seq) == {seq[i] : i \in 1..Len(seq)}
InFlight == {i \in 1..Len(requests) : requests[i].pending}
HeadIs(kind, purpose) ==
    /\ storageQ # <<>>
    /\ Head(storageQ).kind = kind
    /\ Head(storageQ).purpose = purpose
NameKey(d) == IF Has(d, "product_name") THEN <<d.product_name>> ELSE <<>>

\* C1: a bookmark add reads the stored list; when an entry of it has the
\* product_name of the current result the list stays as it is, nothing is
\* written and the user is told so; otherwise the list written is the list
\* read with the current result appended, the earlier entries in their order,
\* and the write makes exactly that list the stored one.
C1_AddAppendsOrRejects ==
    [][(StorageCallback /\ HeadIs("get", "add") =>
          IF \E i \in 1..Len(stored) : NameKey(stored[i]) = NameKey(currentProductData)
          THEN /\ stored' = stored
               /\ storageQ' = Tail(storageQ)
               /\ lastAlert' = AlreadyBookmarked
          ELSE /\ stored' = stored
               /\ Len(storageQ') = Len(storageQ)
               /\ LET w == storageQ'[Len(storageQ')]
                  IN /\ w.kind = "set"
                     /\ Len(w.value) = Len(stored) + 1
                     /\ \A i \in 1..Len(stored) : w.value[i] = stored[i]
                     /\ w.value[Len(stored) + 1] = currentProductData)
       /\ (StorageCallback /\ HeadIs("set", "add") =>
             /\ stored' = Head(storageQ).value
             /\ lastAlert' = ProductBookmarked)]_vars

\* C1 witness: the current result was appended to the two stored bookmarks and
\* a second add of it was rejected as a duplicate
C1_Witness ==
    /\ lastAlert = AlreadyBookmarked
    /\ storageQ = <<>>
    /\ Len(stored) = 3
    /\ SubSeq(stored, 1, 2) \in InitialStores
    /\ stored[3] = currentProductData

\* C2 (as claimed): the stored list never holds two entries with the same
\* product_name, and no accepted add or delete is lost: a write of an add
\* extends the list stored at that moment by one entry, a write of a delete
\* removes entries from the list stored at that moment and brings none back.
C2_NoReadModifyWriteRace ==
    [][StorageCallback /\ storageQ # <<>> /\ Head(storageQ).kind = "set" =>
         /\ \A i, j \in 1..Len(stored') :
               NameKey(stored'[i]) = NameKey(stored'[j]) => i = j
         /\ IF Head(storageQ).purpose = "add"
            THEN \E x \in Range(stored') : stored' = Append(stored, x)
            ELSE Range(stored') \subseteq Range(stored)]_vars

\* C3 (as claimed): at most one backend request started by the analyze button
\* is in flight.
C3_AtMostOneInFlight == Cardinality(InFlight) <= 1

\* C4 (as claimed): an analyze click made while the active tab has a URL
\* issues exactly one POST: never more requests than clicks, and once every
\* tab-query callback has run, as many requests as clicks.
C4_OnePostPerClick ==
    /\ Len(requests) <= clicks
    /\ (tabHasUrl /\ actions = clicks /\ tabQ = <<>>) => Len(requests) = clicks

\* C5: whenever the analyze button is disabled and the loader shown for a
\* request, the button is eventually enabled again and the loader hidden,
\* whatever the outcome of the request.
C5_ControlsReenabled ==
    (analyzeDisabled /\ ~loaderHidden) ~> (~analyzeDisabled /\ loaderHidden)

\* C5 witness: a request ended with an exception thrown while rendering, and
\* the button is enabled and the loader hidden
C5_Witness ==
    /\ errorText = ConnectionFailed(<<PanelTypeError>>)
    /\ ~errorHidden
    /\ InFlight = {}
    /\ Len(requests) > 0
    /\ ~analyzeDisabled
    /\ loaderHidden

\* what the claims call the default rendering of an absent field
DefaultsRendered(d, dm) ==
    /\ ~Has(d, "product_name") => dm.productName = NameDefault
    /\ ~Has(d, "review_summary_generator") => dm.summary = SummaryDefault
    /\ ~Has(d.public_opinion, "positive_percent") => dm.barWidth = <<"0", "%">>
    /\ (~Has(d, "pros_cons_panel") \/ ~Has(d.pros_cons_panel, "pros"))
          => dm.prosList \in {<<EmptyListItem>>, <<[text |-> "N/A"]>>}
    /\ (~Has(d, "pros_cons_panel") \/ ~Has(d.pros_cons_panel, "cons"))
          => dm.consList \in {<<EmptyListItem>>, <<[text |-> "N/A"]>>}

\* C6 (as claimed): for a response that has public_opinion, whichever optional
\* fields are absent, displayResults does not throw: no error is shown, the
\* results panel is shown and each absent field is rendered as its default.
C6_RendererNeverFails ==
    [][\A i \in 1..Len(requests) : \A d \in Responses :
          (Has(d, "public_opinion") /\ SettleWith(i, OkJson(d))) =>
             /\ ~resultsHidden'
             /\ errorText' = errorText
             /\ errorHidden' = errorHidden
             /\ DefaultsRendered(d, dom')]_vars

\* C7: for a response (or null) without public_opinion, displayResults shows
\* the fixed message in the error panel and stops: nothing is thrown (the
\* message is not the one of the catch handler), the results panel is not
\* shown, the rendered fields and the current result stay as they were.
C7_InvalidDataStops ==
    [][\A i \in 1..Len(requests) : \A d \in Responses \cup {NullData} :
          ((IsNull(d) \/ "public_opinion" \notin DOMAIN d) /\ SettleWith(i, OkJson(d))) =>
             /\ errorText' = InvalidDataMsg
             /\ ~errorHidden'
             /\ resultsHidden' = resultsHidden
             /\ dom' = dom
             /\ currentProductData' = currentProductData]_vars

\* C7 witness: after a rendered result, a response without public_opinion was
\* answered with the fixed message; the rendered fields are still there and
\* the results panel is hidden
C7_Witness ==
    /\ errorText = InvalidDataMsg
    /\ ~errorHidden
    /\ resultsHidden
    /\ dom.productName = "A"
    /\ InFlight = {}

\* C8 (as claimed): on a non-success status the error shown carries the detail
\* text of the body when the body parses and has one; when the body does not
\* parse or has no detail, it is a message that carries the HTTP status code.
C8_BackendErrorMessage ==
    [][\A i \in 1..Len(requests) : \A o \in Outcomes :
          (o.net /\ ~o.ok /\ SettleWith(i, o)) =>
             /\ ~errorHidden'
             /\ IF o.parsed /\ ~IsNull(o.body) /\ Has(o.body, "detail")
                THEN o.body.detail \in Range(errorText')
                ELSE ToString(o.status) \in Range(errorText')]_vars

\* the score the claims expect for a response, in tenths
ClaimedRating(d) ==
    IF ~Has(d, "rating") THEN 0
    ELSE LET r == ParseFloat(SplitFirst(d.rating)) IN IF r.nan THEN 0 ELSE r.v
ClaimedPercent(d) ==
    IF Has(d.public_opinion, "positive_percent")
    THEN d.public_opinion.positive_percent ELSE 0
ClaimedScore(d) ==
    IF Has(d, "overall_score") THEN d.overall_score
    ELSE (12 * ClaimedRating(d) + 4 * ClaimedPercent(d) + 5) \div 10
Decimal1(t) == ToString(t \div 10) \o "." \o ToString(t % 10)

\* C9 (as claimed): the score shown for a rendered response is overall_score
\* when the response has one (0 included), and otherwise
\* round((rating/5*10)*0.6 + (positive_percent/10)*0.4, 1) with the rating 0
\* when absent or unparseable and positive_percent 0 when absent.
C9_DisplayedScore ==
    [][\A i \in 1..Len(requests) : \A d \in Responses :
          (Has(d, "public_opinion") /\ Has(d, "pros_cons_panel")
             /\ SettleWith(i, OkJson(d))) =>
                /\ Len(dom'.scoreText) = 2
                /\ dom'.scoreText[1] \in {Decimal1(ClaimedScore(d)),
                                          NumberToString(ClaimedScore(d))}
                /\ dom'.scoreText[2] = " / 10"]_vars

\* C10: a delete of the zero-based position i of a stored list of length n,
\* 0 <= i < n, writes a list of length n-1 that is the stored list without its
\* entry at i, the others in their order, and the write makes it the stored one.
C10_DeleteRemovesPosition ==
    [][(StorageCallback /\ HeadIs("get", "delete")
          /\ Head(storageQ).index < Len(stored) =>
             LET i == Head(storageQ).index
                 w == storageQ'[Len(storageQ')]
             IN /\ w.kind = "set"
                /\ Len(w.value) = Len(stored) - 1
                /\ \A j \in 1..Len(w.value) :
                      w.value[j] = IF j <= i THEN stored[j] ELSE stored[j + 1])
       /\ (StorageCallback /\ HeadIs("set", "delete") =>
             stored' = Head(storageQ).value)]_vars

\* C10 witness: position 0 of the two stored bookmarks was deleted and the list
\* rendered again
C10_Witness ==
    /\ stored = <<WithUrl(RespNoScore)>>
    /\ storageQ = <<>>
    /\ bookmarkRows = RenderBookmarks(stored)

\* C11: when the active tab has no URL, the tab-query callback of an analyze
\* click shows "Could not get the URL of the current tab." and stops: no
\* request is started, the button and the loader are left as they are, and
\* with no request in flight the button is enabled and the loader hidden.
C11_NoUrlError ==
    [][(TabsCallback /\ ~tabHasUrl) =>
          /\ errorText' = NoUrlMsg
          /\ ~errorHidden'
          /\ requests' = requests
          /\ analyzeDisabled' = analyzeDisabled
          /\ loaderHidden' = loaderHidden
          /\ (InFlight = {} => ~analyzeDisabled' /\ loaderHidden')]_vars

\* C11 witness: every callback of the analyze clicks has run on a tab without
\* URL; the error is shown, nothing was sent, the button is enabled and the
\* loader hidden
C11_Witness ==
    /\ clicks > 0
    /\ tabQ = <<>>
    /\ ~tabHasUrl
    /\ errorText = NoUrlMsg
    /\ ~errorHidden
    /\ requests = <<>>
    /\ ~analyzeDisabled
    /\ loaderHidden

\* C12: when the user declines the confirmation prompt of a delete click, no
\* storage read or write is issued, and the stored list and the rendered list
\* stay as they are.
C12_DeclinedDeleteChangesNothing ==
    [][\A row \in 1..Len(bookmarkRows) :
          DeleteClick(row, FALSE) =>
             /\ lastAlert' = ConfirmRemove
             /\ storageQ' = storageQ
             /\ stored' = stored
             /\ bookmarkRows' = bookmarkRows]_vars

\* C12 witness: the two stored bookmarks were rendered, the prompt of a delete
\* click was the last dialog, and nothing was read, written or re-rendered
C12_Witness ==
    /\ lastAlert = ConfirmRemove
    /\ actions = 2
    /\ storageQ = <<>>
    /\ Len(stored) = 2
    /\ stored \in InitialStores
    /\ bookmarkRows = RenderBookmarks(stored)

\* the entries of list f of response d, none when the list is absent
EntriesOf(d, f) ==
    IF Has(d.pros_cons_panel, f) THEN d.pros_cons_panel[f] ELSE <<>>
Rendered(d) == Has(d, "public_opinion") /\ Has(d, "pros_cons_panel")

\* the rendered list shows the first four entries of a list, or all of them
\* when there are at most four, by their keywords and in their order
FirstFourShown(entries, lis) ==
    /\ Len(lis) = (IF Len(entries) > 4 THEN 4 ELSE Len(entries))
    /\ \A j \in 1..Len(lis) :
          Has(lis[j], "keyword") /\ lis[j].keyword = entries[j].keyword

\* C13 (as claimed): a pros or cons list of more than 4 entries is rendered as
\* exactly its first 4 entries in their order, a list of at most 4 entries in
\* full and in its order.
C13_AtMostFourRendered ==
    [][\A i \in 1..Len(requests) : \A d \in Responses :
          (Rendered(d) /\ SettleWith(i, OkJson(d))) =>
             /\ Len(EntriesOf(d, "pros")) > 0
                   => FirstFourShown(EntriesOf(d, "pros"), dom'.prosList)
             /\ Len(EntriesOf(d, "cons")) > 0
                   => FirstFourShown(EntriesOf(d, "cons"), dom'.consList)]_vars

\* what the claims expect as the quote of an entry: the first example, cut to
\* its first 50 characters and "..." when it is longer than 50
ClaimedQuote(ex) ==
    IF Len(ex) <= 50 THEN ex
    ELSE [k \in 1..53 |-> IF k <= 50 THEN ex[k] ELSE "."]
QuoteAsClaimed(entry, li) ==
    IF Has(entry, "examples") /\ entry.examples # <<>>
    THEN /\ Has(li, "quote")
         /\ li.quote = <<"\"">> \o ClaimedQuote(entry.examples[1]) \o <<"\"">>
    ELSE ~Has(li, "quote")

OnlyPlaceholder(lis) ==
    /\ Len(lis) = 1
    /\ ~Has(lis[1], "keyword")
    /\ Has(lis[1], "text")
    /\ lis[1].text = "N/A"

C16_CurrentIsRendered ==
    [][currentProductData' # currentProductData =>
          /\ ~resultsHidden'
          /\ Has(currentProductData', "pros_cons_panel")
          /\ dom'.productName = NameOf(currentProductData')]_vars

\* C17 (as claimed): when the removal of a confirmed delete is applied, the
\* index carried by the clicked button is the position, in the stored list,
\* of the bookmark shown on the clicked row.
C17_DeleteRemovesClickedRow ==
    [][(HeadIs("get", "delete") /\ StorageCallback) =>
          LET r == Head(storageQ).row
          IN /\ r.index < Len(stored)
             /\ BookmarkRow(stored[r.index + 1], r.index) = r]_vars

\* C18 (as claimed): between handlers at most one of the loader, the error
\* panel and the results panel is visible.
C18_PanelsExclusive ==
    /\ ~(~loaderHidden /\ ~errorHidden)
    /\ ~(~loaderHidden /\ ~resultsHidden)
    /\ ~(~errorHidden /\ ~resultsHidden)

\* C19 (as claimed): while a backend request is in flight the analyze button
\* is disabled and the loader visible; while none is in flight the button is
\* enabled and the loader hidden.
C19_BusyWhileInFlight ==
    /\ InFlight # {} => analyzeDisabled /\ ~loaderHidden
    /\ InFlight = {} => ~analyzeDisabled /\ loaderHidden

====
